---- MODULE Spec2Model ----
(***************************************************************************)
(* State-machine model of the 3d-renderer application.                     *)
(*                                                                         *)
(*   Spec          main() / App::init / App::run / App::handleInput /      *)
(*                 App::cleanup (src/src/main.cpp, src/src/app.cpp)        *)
(*   RendererSpec  the Renderer object (src/src/renderer.cpp) driven by    *)
(*                 an arbitrary single-threaded caller                     *)
(*                                                                         *)
(* Time is counted in integer ticks; FIXED_UPDATE_TIMESTEP is a whole      *)
(* number of ticks.  Camera orientation is restricted to the axis-aligned  *)
(* yaws (pitch 0) so that the view matrix has integer entries; the         *)
(* projection matrix is kept in fixed point with denominator ProjDenom.    *)
(***************************************************************************)
EXTENDS Integers, Sequences, FiniteSets, TLC

\* ------------------------------------------------------------------ bounds

\* ticks in one fixed timestep (1/60 s)
TimestepTicks == 3
\* largest elapsed time between two loop iterations, in ticks
MaxElapsed == 7
\* the camera stays within this many grid units (summed over the axes) of its
\* initial position
CamBound == 1
\* a metered run adds up at most this many ticks of elapsed time
MaxTotalElapsed == 10
\* a metered run counts at most this many calls of Camera::moveForward
MaxForwardCalls == 2
\* the cursor is reported within this many grid units of the window's centre,
\* per axis
MaxCursor == 1

\* ------------------------------------------------------- program constants

SCREEN_WIDTH == 1024
SCREEN_HEIGHT == 768
FIXED_UPDATE_TIMESTEP == TimestepTicks
EXIT_SUCCESS == 0
EXIT_FAILURE == 1

NULL == "NULL"

modelPaths == <<"assets/meshes/cube.obj", "assets/meshes/teapot.obj", "assets/meshes/bunny.obj">>

Keys == {"ESCAPE", "W", "S", "A", "D", "SPACE", "LEFT_CONTROL"}

\* ------------------------------------------------------------------ state

VARIABLES
    pc,             \* position of the single thread in main/init/run
    exitCode,       \* process exit code, NULL while running
    glfwUp,         \* glfwInit succeeded and glfwTerminate not yet called
    window_,        \* App::window_
    glLoaded,       \* GL function addresses loaded
    guiUp,          \* Gui::init done and Gui::cleanup not yet called
    skybox_,        \* App::skybox_
    models_,        \* App::models_
    gl,             \* state of the OpenGL context
    initLog,        \* startup steps executed so far with their outcome, in order
    runEntered,     \* App::run has been called
    closeFlag,      \* the window's should-close flag
    lag,            \* accumulator of App::run
    drawProps,      \* local DrawProperties of App::run
    activeModel,    \* local activeModel of App::run
    camera_,        \* App::camera_ (Renderer::camera_ refers to it)
    frame,          \* what the current loop iteration has done so far
    emscripten,     \* the build defines __EMSCRIPTEN__
    rpc,            \* position of the thread inside the Renderer
    rWindow_,       \* Renderer::window_
    shaders_,       \* Renderer::shaders_
    rInit,          \* locals and outcome of Renderer::init
    drawProps_,     \* Renderer::drawProps_, a reference to the owner's DrawProperties
    projection_,    \* Renderer::projection_
    curModel,       \* the model argument of the executing drawModel
    u_projectionView, \* value of the skybox program's u_projectionView uniform
    cleanups,       \* number of calls of App::cleanup
    meter,          \* totals over the run, kept in the metered specifications
    mouseRight,     \* state of the right mouse button as glfwGetMouseButton reports it
    cursorMode,     \* the window's GLFW_CURSOR input mode
    lastMousePos,   \* windowCallbackData_.lastMousePos
    inputLog        \* what the last input callback did

appVars == <<pc, exitCode, glfwUp, window_, glLoaded, guiUp, skybox_, models_,
             initLog, runEntered, closeFlag, lag, drawProps,
             activeModel, frame, cleanups, meter>>

inVars == <<mouseRight, cursorMode, lastMousePos, inputLog>>

rVars == <<emscripten, rpc, rWindow_, shaders_, rInit, drawProps_, projection_, curModel,
           u_projectionView>>

vars == <<appVars, gl, camera_, rVars, inVars>>

\* ----------------------------------------------------------------- vectors

Vec3 == [1..3 -> Int]

VecAdd(a, b) == [i \in 1..3 |-> a[i] + b[i]]

VecScale(a, k) == [i \in 1..3 |-> a[i] * k]

VecNeg(a) == [i \in 1..3 |-> 0 - a[i]]

Dot(a, b) == a[1] * b[1] + a[2] * b[2] + a[3] * b[3]

Cross(a, b) == <<a[2] * b[3] - a[3] * b[2], a[3] * b[1] - a[1] * b[3], a[1] * b[2] - a[2] * b[1]>>

\* ------------------------------------------------------------------ Camera

Yaws == {0, 90, 180, 270}

WorldUp == <<0, 1, 0>>

\* spherical-to-Cartesian conversion at pitch 0
Front(yaw) ==
    CASE yaw = 0 -> <<1, 0, 0>>
      [] yaw = 90 -> <<0, 0, 1>>
      [] yaw = 180 -> <<-1, 0, 0>>
      [] yaw = 270 -> <<0, 0, -1>>

Right(yaw) == Cross(Front(yaw), WorldUp)

Up(yaw) == Cross(Right(yaw), Front(yaw))

\* the initial pose given to the Camera constructor, on the model's grid
InitialCamera == [position |-> <<2, 1, 4>>, yaw |-> 270]

Abs(x) == IF x < 0 THEN 0 - x ELSE x

InBox(cam) ==
    LET d == VecAdd(cam.position, VecNeg(InitialCamera.position))
    IN  Abs(d[1]) + Abs(d[2]) + Abs(d[3]) <= CamBound

\* distance moved by one mutator call with dt = one fixed timestep is one grid unit
Distance(dt) == dt \div FIXED_UPDATE_TIMESTEP

moveForward(cam, dt) == [cam EXCEPT !.position = VecAdd(@, VecScale(Front(cam.yaw), Distance(dt)))]

moveBackward(cam, dt) == [cam EXCEPT !.position = VecAdd(@, VecScale(Front(cam.yaw), 0 - Distance(dt)))]

strafeLeft(cam, dt) == [cam EXCEPT !.position = VecAdd(@, VecScale(Right(cam.yaw), 0 - Distance(dt)))]

strafeRight(cam, dt) == [cam EXCEPT !.position = VecAdd(@, VecScale(Right(cam.yaw), Distance(dt)))]

ascend(cam, dt) == [cam EXCEPT !.position = VecAdd(@, VecScale(WorldUp, Distance(dt)))]

descend(cam, dt) == [cam EXCEPT !.position = VecAdd(@, VecScale(WorldUp, 0 - Distance(dt)))]

\* ---------------------------------------------------------- DrawProperties

\* the model indices the GUI's selector offers
GuiModelChoices == 0..(Len(modelPaths) - 1)

DrawPropertiesValues == [selectedModelIndex : GuiModelChoices, skyboxEnabled : BOOLEAN]

createDefault == [selectedModelIndex |-> 0, skyboxEnabled |-> TRUE]

\* Gui::preRender: DrawProperties as edited by the user in this frame
GuiPreRenderResults(props) == DrawPropertiesValues

\* --------------------------------------------------------------- frame log

\* escape: handleInput saw Escape pressed; drained: passes of the drain loop;
\* guiProps: what Gui::preRender returned; drawn: the models drawn, in order
\* accumulated: lag right after "lag += elapsedTime"; order: the steps taken
NoFrame == [escape |-> FALSE, drained |-> 0, guiProps |-> NULL, clears |-> 0, drawn |-> <<>>,
            skyboxDraws |-> 0, guiDraws |-> 0, swaps |-> 0, accumulated |-> 0,
            order |-> <<>>]

\* ------------------------------------------------------------- run totals

\* mode "off": no totals are kept; "time": elapsed ticks and drained timesteps
\* of the whole run; "movement": also the calls of Camera::moveForward, and
\* whether W was down at every handleInput so far
MeterOff == [mode |-> "off", elapsed |-> 0, drained |-> 0, forwardCalls |-> 0,
             forwardHeld |-> TRUE]

MeterTick(m, elapsedTime) ==
    IF m.mode = "off" THEN m ELSE [m EXCEPT !.elapsed = @ + elapsedTime]

MeterDrain(m) ==
    IF m.mode = "off" THEN m ELSE [m EXCEPT !.drained = @ + 1]

MeterInput(m, keys) ==
    IF m.mode # "movement"
    THEN m
    ELSE [m EXCEPT !.forwardCalls = IF "W" \in keys THEN @ + 1 ELSE @,
                   !.forwardHeld = @ /\ "W" \in keys]

\* a metered run stops adding where its totals would pass their bounds
TickMetered(m, elapsedTime) ==
    m.mode = "off" \/ m.elapsed + elapsedTime <= MaxTotalElapsed

InputMetered(m, keys) ==
    m.mode # "movement" \/ "W" \notin keys \/ m.forwardCalls < MaxForwardCalls

\* ------------------------------------------------------------------ main()

AppInit ==
    /\ pc = "main"
    /\ exitCode = NULL
    /\ glfwUp = FALSE
    /\ window_ = NULL
    /\ glLoaded = FALSE
    /\ guiUp = FALSE
    /\ skybox_ = NULL
    /\ models_ = <<>>
    /\ initLog = <<>>
    /\ runEntered = FALSE
    /\ closeFlag = FALSE
    /\ lag = 0
    /\ drawProps = NULL
    /\ activeModel = NULL
    /\ camera_ = InitialCamera
    /\ frame = NoFrame
    /\ cleanups = 0

\* one startup step of App::init: on failure init returns false to main
InitStep(name, ok, next) ==
    /\ initLog' = Append(initLog, [step |-> name, ok |-> ok])
    /\ pc' = IF ok THEN next ELSE "init_failed"

MainStart ==
    /\ pc = "main"
    /\ pc' = "init_glfw"
    /\ UNCHANGED <<exitCode, glfwUp, window_, glLoaded, guiUp, skybox_, models_, initLog, runEntered, closeFlag, lag, drawProps, activeModel, frame,
                   gl, camera_, rVars, cleanups, meter, inVars>>

InitGlfw ==
    /\ pc = "init_glfw"
    /\ \E ok \in BOOLEAN :
        /\ InitStep("glfwInit", ok, "init_window")
        /\ glfwUp' = ok
    /\ UNCHANGED <<exitCode, window_, glLoaded, guiUp, skybox_, models_, runEntered,
                   closeFlag, lag, drawProps, activeModel, frame, gl, camera_, rVars, cleanups, meter, inVars>>

InitWindow ==
    /\ pc = "init_window"
    /\ \E ok \in BOOLEAN :
        /\ InitStep("glfwCreateWindow", ok, "init_glad")
        /\ window_' = IF ok THEN "window" ELSE NULL
    /\ UNCHANGED <<exitCode, glfwUp, glLoaded, guiUp, skybox_, models_, runEntered,
                   closeFlag, lag, drawProps, activeModel, frame, gl, camera_, rVars, cleanups, meter, inVars>>

InitGlad ==
    /\ pc = "init_glad"
    /\ \E ok \in BOOLEAN :
        /\ InitStep("gladLoadGL", ok, "init_gui")
        /\ glLoaded' = ok
    /\ UNCHANGED <<exitCode, glfwUp, window_, guiUp, skybox_, models_, runEntered,
                   closeFlag, lag, drawProps, activeModel, frame, gl, camera_, rVars, cleanups, meter, inVars>>

InitGui ==
    /\ pc = "init_gui"
    /\ InitStep("Gui::init", TRUE, "init_skybox")
    /\ guiUp' = TRUE
    /\ UNCHANGED <<exitCode, glfwUp, window_, glLoaded, skybox_, models_, runEntered,
                   closeFlag, lag, drawProps, activeModel, frame, gl, camera_, rVars, cleanups, meter, inVars>>

InitSkybox ==
    /\ pc = "init_skybox"
    /\ \E ok \in BOOLEAN :
        /\ InitStep("SkyboxBuilder::build", ok, "init_models")
        /\ skybox_' = IF ok THEN "skybox" ELSE NULL
    /\ UNCHANGED <<exitCode, glfwUp, window_, glLoaded, guiUp, models_, runEntered,
                   closeFlag, lag, drawProps, activeModel, frame, gl, camera_, rVars, cleanups, meter, inVars>>

\* the loop over modelPaths with a model that cannot be created skipped
InitModelSkipFailed ==
    /\ pc = "init_models"
    /\ LET path == modelPaths[Len(initLog) - 4] IN
       \E ok \in BOOLEAN :
        /\ initLog' = Append(initLog, [step |-> path, ok |-> ok])
        /\ models_' = IF ok THEN Append(models_, path) ELSE models_
        /\ pc' = IF Len(initLog) - 4 = Len(modelPaths) THEN "init_glstate" ELSE "init_models"
    /\ UNCHANGED <<exitCode, glfwUp, window_, glLoaded, guiUp, skybox_, runEntered,
                   closeFlag, lag, drawProps, activeModel, frame, gl, camera_, rVars, cleanups, meter, inVars>>

\* one pass of the loop over modelPaths: the next path is the one after those loaded
InitModel ==
    /\ pc = "init_models"
    /\ LET path == modelPaths[Len(models_) + 1] IN
       \E ok \in BOOLEAN :
        /\ InitStep(path, ok,
                    IF Len(models_) + 1 = Len(modelPaths) THEN "init_glstate" ELSE "init_models")
        /\ models_' = IF ok THEN Append(models_, path) ELSE models_
    /\ UNCHANGED <<exitCode, glfwUp, window_, glLoaded, guiUp, skybox_, runEntered,
                   closeFlag, lag, drawProps, activeModel, frame, gl, camera_, rVars, cleanups, meter, inVars>>

InitGlState ==
    /\ pc = "init_glstate"
    /\ InitStep("glEnable", TRUE, "init_ok")
    /\ gl' = [gl EXCEPT !.depthTest = TRUE, !.blend = TRUE]
    /\ UNCHANGED <<exitCode, glfwUp, window_, glLoaded, guiUp, skybox_, models_,
                   runEntered, closeFlag, lag, drawProps, activeModel, frame, camera_, rVars, cleanups, meter, inVars>>

\* main returning EXIT_SUCCESS although init failed
MainInitFailedExitsZero ==
    /\ pc = "init_failed"
    /\ pc' = "exit"
    /\ exitCode' = EXIT_SUCCESS
    /\ UNCHANGED <<glfwUp, window_, glLoaded, guiUp, skybox_, models_, initLog,
                   runEntered, closeFlag, lag, drawProps, activeModel, frame,
                   gl, camera_, rVars, cleanups, meter, inVars>>

\* main calling app.cleanup() before it returns EXIT_FAILURE
MainInitFailedCleansUp ==
    /\ pc = "init_failed"
    /\ guiUp' = FALSE
    /\ window_' = NULL
    /\ glfwUp' = FALSE
    /\ pc' = "exit"
    /\ exitCode' = EXIT_FAILURE
    /\ cleanups' = cleanups + 1
    /\ UNCHANGED <<glLoaded, skybox_, models_, initLog, runEntered, closeFlag, lag,
                   drawProps, activeModel, frame, gl, camera_, rVars, meter, inVars>>

\* main: if (!app.init()) return EXIT_FAILURE;
MainInitFailed ==
    /\ pc = "init_failed"
    /\ pc' = "exit"
    /\ exitCode' = EXIT_FAILURE
    /\ UNCHANGED <<glfwUp, window_, glLoaded, guiUp, skybox_, models_, initLog, runEntered, closeFlag, lag, drawProps, activeModel, frame,
                   gl, camera_, rVars, cleanups, meter, inVars>>

\* main: app.run(); the prologue of App::run
RunStart ==
    /\ pc = "init_ok"
    /\ pc' = "loop_top"
    /\ runEntered' = TRUE
    /\ drawProps' = createDefault
    /\ lag' = 0
    /\ UNCHANGED <<exitCode, glfwUp, window_, glLoaded, guiUp, skybox_, models_, initLog, closeFlag, activeModel, frame, gl, camera_, rVars, cleanups, meter, inVars>>

\* --------------------------------------------------------------- App::run

\* while (!glfwWindowShouldClose(window_)), taken as if the flag were never set
LoopTopIgnoreFlag ==
    /\ pc = "loop_top"
    /\ pc' = "tick"
    /\ frame' = NoFrame
    /\ UNCHANGED <<exitCode, glfwUp, window_, glLoaded, guiUp, skybox_, models_, initLog, runEntered, closeFlag, lag, drawProps, activeModel,
                   gl, camera_, rVars, cleanups, meter, inVars>>

\* while (!glfwWindowShouldClose(window_))
LoopTop ==
    /\ pc = "loop_top"
    /\ IF closeFlag
       THEN /\ pc' = "run_returned"
            /\ UNCHANGED frame
       ELSE /\ pc' = "tick"
            /\ frame' = NoFrame
    /\ UNCHANGED <<exitCode, glfwUp, window_, glLoaded, guiUp, skybox_, models_, initLog, runEntered, closeFlag, lag, drawProps, activeModel,
                   gl, camera_, rVars, cleanups, meter, inVars>>

\* elapsedTime = currentTime - previousTime; lag = elapsedTime
TickDropsCarry ==
    /\ pc = "tick"
    /\ \E elapsedTime \in 0..MaxElapsed :
        /\ TickMetered(meter, elapsedTime)
        /\ lag' = elapsedTime
        /\ frame' = [frame EXCEPT !.accumulated = lag + elapsedTime]
        /\ meter' = MeterTick(meter, elapsedTime)
    /\ pc' = "handle_input"
    /\ UNCHANGED <<exitCode, glfwUp, window_, glLoaded, guiUp, skybox_, models_, initLog,
                   runEntered, closeFlag, drawProps, activeModel,
                   gl, camera_, rVars, cleanups, inVars>>

\* elapsedTime = currentTime - previousTime; lag += elapsedTime
Tick ==
    /\ pc = "tick"
    /\ \E elapsedTime \in 0..MaxElapsed :
        /\ TickMetered(meter, elapsedTime)
        /\ lag' = lag + elapsedTime
        /\ frame' = [frame EXCEPT !.accumulated = lag + elapsedTime]
        /\ meter' = MeterTick(meter, elapsedTime)
    /\ pc' = "handle_input"
    /\ UNCHANGED <<exitCode, glfwUp, window_, glLoaded, guiUp, skybox_, models_, initLog,
                   runEntered, closeFlag, drawProps, activeModel,
                   gl, camera_, rVars, cleanups, inVars>>

\* the camera after the six movement tests of handleInput, in program order
CameraAfterKeys(cam, keys) ==
    LET c1 == IF "W" \in keys THEN moveForward(cam, FIXED_UPDATE_TIMESTEP) ELSE cam
        c2 == IF "S" \in keys THEN moveBackward(c1, FIXED_UPDATE_TIMESTEP) ELSE c1
        c3 == IF "A" \in keys THEN strafeLeft(c2, FIXED_UPDATE_TIMESTEP) ELSE c2
        c4 == IF "D" \in keys THEN strafeRight(c3, FIXED_UPDATE_TIMESTEP) ELSE c3
        c5 == IF "SPACE" \in keys THEN ascend(c4, FIXED_UPDATE_TIMESTEP) ELSE c4
        c6 == IF "LEFT_CONTROL" \in keys THEN descend(c5, FIXED_UPDATE_TIMESTEP) ELSE c5
    IN  <<c1, c2, c3, c4, c5, c6>>

\* App::handleInput; keys is the set of keys glfwGetKey reports pressed
HandleInput ==
    /\ pc = "handle_input"
    /\ \E keys \in SUBSET Keys :
        LET cams == CameraAfterKeys(camera_, keys) IN
        /\ \A i \in 1..6 : InBox(cams[i])
        /\ InputMetered(meter, keys)
        /\ closeFlag' = IF "ESCAPE" \in keys THEN TRUE ELSE closeFlag
        /\ camera_' = cams[6]
        /\ frame' = [frame EXCEPT !.escape = "ESCAPE" \in keys,
                                  !.order = Append(@, "handleInput")]
        /\ meter' = MeterInput(meter, keys)
    /\ pc' = "drain"
    /\ UNCHANGED <<exitCode, glfwUp, window_, glLoaded, guiUp, skybox_, models_, initLog,
                   runEntered, lag, drawProps, activeModel, gl, rVars, cleanups, inVars>>

\* the drain written as "if (lag >= FIXED_UPDATE_TIMESTEP)": left after one pass
DrainExitAfterOnePass ==
    /\ pc = "drain"
    /\ lag < FIXED_UPDATE_TIMESTEP \/ frame.drained >= 1
    /\ pc' = "gui_prerender"
    /\ UNCHANGED <<exitCode, glfwUp, window_, glLoaded, guiUp, skybox_, models_, initLog, runEntered, closeFlag, lag, drawProps, activeModel, frame,
                   gl, camera_, rVars, cleanups, meter, inVars>>

\* a pass of the drain loop that also presents a frame
DrainStepPresenting ==
    /\ pc = "drain"
    /\ lag >= FIXED_UPDATE_TIMESTEP
    /\ lag' = lag - FIXED_UPDATE_TIMESTEP
    /\ frame' = [frame EXCEPT !.drained = @ + 1, !.swaps = @ + 1]
    /\ meter' = MeterDrain(meter)
    /\ UNCHANGED <<pc, exitCode, glfwUp, window_, glLoaded, guiUp, skybox_, models_, initLog,
                   runEntered, closeFlag, drawProps, activeModel,
                   gl, camera_, rVars, cleanups, inVars>>

\* while (lag >= FIXED_UPDATE_TIMESTEP) lag -= FIXED_UPDATE_TIMESTEP;  one pass
DrainStep ==
    /\ pc = "drain"
    /\ lag >= FIXED_UPDATE_TIMESTEP
    /\ lag' = lag - FIXED_UPDATE_TIMESTEP
    /\ frame' = [frame EXCEPT !.drained = @ + 1]
    /\ meter' = MeterDrain(meter)
    /\ UNCHANGED <<pc, exitCode, glfwUp, window_, glLoaded, guiUp, skybox_, models_, initLog,
                   runEntered, closeFlag, drawProps, activeModel,
                   gl, camera_, rVars, cleanups, inVars>>

\* the loop condition found false
DrainExit ==
    /\ pc = "drain"
    /\ ~(lag >= FIXED_UPDATE_TIMESTEP)
    /\ pc' = "gui_prerender"
    /\ UNCHANGED <<exitCode, glfwUp, window_, glLoaded, guiUp, skybox_, models_, initLog, runEntered, closeFlag, lag, drawProps, activeModel, frame,
                   gl, camera_, rVars, cleanups, meter, inVars>>

\* Gui::preRender(camera_, drawProps)
GuiPreRender ==
    /\ pc = "gui_prerender"
    /\ \E props \in GuiPreRenderResults(drawProps) :
        /\ drawProps' = props
        /\ frame' = [frame EXCEPT !.guiProps = props, !.order = Append(@, "Gui::preRender")]
    /\ pc' = "select_model"
    /\ UNCHANGED <<exitCode, glfwUp, window_, glLoaded, guiUp, skybox_, models_, initLog, runEntered, closeFlag, lag, activeModel, gl, camera_, rVars, cleanups, meter, inVars>>

\* what models_[index].get() can yield: the element, or anything at all when the
\* index is outside the vector (undefined behaviour)
ModelAtFirst(index) == {IF Len(models_) > 0 THEN models_[1] ELSE "INVALID"}

ModelAt(index) ==
    IF index >= 0 /\ index < Len(models_)
    THEN {models_[index + 1]}
    ELSE {"INVALID"} \cup {models_[i] : i \in 1..Len(models_)}

\* Model* activeModel = models_[drawProps.selectedModelIndex].get()
SelectModel ==
    /\ pc = "select_model"
    /\ activeModel' \in ModelAt(drawProps.selectedModelIndex)
    /\ frame' = [frame EXCEPT !.order = Append(@, "activeModel")]
    /\ pc' = "clear"
    /\ UNCHANGED <<exitCode, glfwUp, window_, glLoaded, guiUp, skybox_, models_, initLog,
                   runEntered, closeFlag, lag, drawProps,
                   gl, camera_, rVars, cleanups, meter, inVars>>

\* glViewport, glClearColor, glClear, glm::perspective, followed at once by the
\* skybox
ClearAndProjectThenSkybox ==
    /\ pc = "clear"
    /\ frame' = [frame EXCEPT !.clears = @ + 1, !.order = Append(@, "clear")]
    /\ pc' = "draw_skybox"
    /\ UNCHANGED <<exitCode, glfwUp, window_, glLoaded, guiUp, skybox_, models_, initLog,
                   runEntered, closeFlag, lag, drawProps, activeModel,
                   gl, camera_, rVars, cleanups, meter, inVars>>

\* glViewport, glClearColor, glClear, glm::perspective
ClearAndProject ==
    /\ pc = "clear"
    /\ frame' = [frame EXCEPT !.clears = @ + 1, !.order = Append(@, "clear")]
    /\ pc' = "draw_model"
    /\ UNCHANGED <<exitCode, glfwUp, window_, glLoaded, guiUp, skybox_, models_, initLog, runEntered, closeFlag, lag, drawProps, activeModel,
                   gl, camera_, rVars, cleanups, meter, inVars>>

\* activeModel->draw(projection, camera_, drawProps)
DrawActiveModel ==
    /\ pc = "draw_model"
    /\ frame' = [frame EXCEPT !.drawn = Append(@, activeModel),
                              !.order = Append(@, "drawModel")]
    /\ pc' = "draw_skybox"
    /\ UNCHANGED <<exitCode, glfwUp, window_, glLoaded, guiUp, skybox_, models_, initLog, runEntered, closeFlag, lag, drawProps, activeModel,
                   gl, camera_, rVars, cleanups, meter, inVars>>

\* skybox_->draw(projection, camera_), whatever drawProps.skyboxEnabled is
DrawSkyboxAlways ==
    /\ pc = "draw_skybox"
    /\ frame' = [frame EXCEPT !.skyboxDraws = @ + 1, !.order = Append(@, "drawSkybox")]
    /\ pc' = "gui_draw"
    /\ UNCHANGED <<exitCode, glfwUp, window_, glLoaded, guiUp, skybox_, models_, initLog,
                   runEntered, closeFlag, lag, drawProps, activeModel,
                   gl, camera_, rVars, cleanups, meter, inVars>>

\* if (drawProps.skyboxEnabled) skybox_->draw(projection, camera_)
DrawSkyboxIfEnabled ==
    /\ pc = "draw_skybox"
    /\ frame' = IF drawProps.skyboxEnabled
                THEN [frame EXCEPT !.skyboxDraws = @ + 1, !.order = Append(@, "drawSkybox")]
                ELSE frame
    /\ pc' = "gui_draw"
    /\ UNCHANGED <<exitCode, glfwUp, window_, glLoaded, guiUp, skybox_, models_, initLog, runEntered, closeFlag, lag, drawProps, activeModel,
                   gl, camera_, rVars, cleanups, meter, inVars>>

\* Gui::draw()
GuiDraw ==
    /\ pc = "gui_draw"
    /\ frame' = [frame EXCEPT !.guiDraws = @ + 1, !.order = Append(@, "Gui::draw")]
    /\ pc' = "swap_buffers"
    /\ UNCHANGED <<exitCode, glfwUp, window_, glLoaded, guiUp, skybox_, models_, initLog, runEntered, closeFlag, lag, drawProps, activeModel,
                   gl, camera_, rVars, cleanups, meter, inVars>>

\* glfwSwapBuffers(window_)
SwapBuffers ==
    /\ pc = "swap_buffers"
    /\ frame' = [frame EXCEPT !.swaps = @ + 1, !.order = Append(@, "swapBuffers")]
    /\ pc' = "poll_events"
    /\ UNCHANGED <<exitCode, glfwUp, window_, glLoaded, guiUp, skybox_, models_, initLog, runEntered, closeFlag, lag, drawProps, activeModel,
                   gl, camera_, rVars, cleanups, meter, inVars>>

\* glfwPollEvents(): a pending close request of the user sets the close flag
PollEvents ==
    /\ pc = "poll_events"
    /\ \E closeRequest \in BOOLEAN :
        closeFlag' = IF closeRequest THEN TRUE ELSE closeFlag
    /\ frame' = [frame EXCEPT !.order = Append(@, "pollEvents")]
    /\ pc' = "loop_top"
    /\ UNCHANGED <<exitCode, glfwUp, window_, glLoaded, guiUp, skybox_, models_, initLog,
                   runEntered, lag, drawProps, activeModel,
                   gl, camera_, rVars, cleanups, meter, inVars>>

\* main: app.cleanup(); return EXIT_SUCCESS;
Cleanup ==
    /\ pc = "run_returned"
    /\ guiUp' = FALSE
    /\ window_' = NULL
    /\ glfwUp' = FALSE
    /\ pc' = "exit"
    /\ exitCode' = EXIT_SUCCESS
    /\ cleanups' = cleanups + 1
    /\ UNCHANGED <<glLoaded, skybox_, models_, initLog, runEntered, closeFlag, lag,
                   drawProps, activeModel, frame, gl, camera_, rVars, meter, inVars>>

AppNext ==
    \/ MainStart
    \/ InitGlfw
    \/ InitWindow
    \/ InitGlad
    \/ InitGui
    \/ InitSkybox
    \/ InitModel
    \/ InitGlState
    \/ MainInitFailed
    \/ RunStart
    \/ LoopTop
    \/ Tick
    \/ HandleInput
    \/ DrainStep
    \/ DrainExit
    \/ GuiPreRender
    \/ SelectModel
    \/ ClearAndProject
    \/ DrawActiveModel
    \/ DrawSkyboxIfEnabled
    \/ GuiDraw
    \/ SwapBuffers
    \/ PollEvents
    \/ Cleanup

\* ---------------------------------------------------------- mouse callbacks

MouseButtons == {"LEFT", "RIGHT", "MIDDLE"}

MouseActions == {"PRESS", "RELEASE"}

\* App::App: lastMousePos starts at the centre of the window
ScreenCentre == <<SCREEN_WIDTH \div 2, SCREEN_HEIGHT \div 2>>

\* the cursor positions GLFW reports
CursorPositions == {<<ScreenCentre[1] + dx, ScreenCentre[2] + dy>> :
                        dx \in (0 - MaxCursor)..MaxCursor,
                        dy \in (0 - MaxCursor)..MaxCursor}

\* Camera::look: one grid unit of horizontal offset turns the camera a quarter
\* turn; the pitch is not modelled
look(cam, xOffset, yOffset) ==
    [cam EXCEPT !.yaw = (@ + 90 * xOffset + 360 * (2 * MaxCursor + 1)) % 360]

\* what the last callback did. kind: "none", "button" or "cursor"; button,
\* action, pos: its arguments; modeBefore, lastBefore, cameraBefore: the cursor
\* mode, lastMousePos and camera when it was called; modes: the cursor modes it
\* set, in order; looks: the arguments of its calls of Camera::look, in order;
\* reported: the last cursor position GLFW reported to the program
NoInput == [kind |-> "none", button |-> "LEFT", action |-> "RELEASE", pos |-> ScreenCentre,
            modeBefore |-> "NORMAL", lastBefore |-> ScreenCentre,
            cameraBefore |-> InitialCamera, modes |-> <<>>, looks |-> <<>>,
            reported |-> ScreenCentre]

InputInit ==
    /\ mouseRight = "RELEASE"
    /\ cursorMode = "NORMAL"
    /\ lastMousePos = ScreenCentre
    /\ inputLog = NoInput

\* App::mouseButtonCallback, handling an event of any button: the cursor modes
\* it sets, in order
mouseButtonCallbackAnyButton(mode, button, action) ==
    IF action = "PRESS"
    THEN IF mode = "NORMAL" THEN <<"HIDDEN", "DISABLED">> ELSE <<>>
    ELSE <<"NORMAL">>

\* App::mouseButtonCallback: the cursor modes it sets, in order
mouseButtonCallback(mode, button, action) ==
    IF button = "RIGHT"
    THEN IF action = "PRESS"
         THEN IF mode = "NORMAL" THEN <<"HIDDEN", "DISABLED">> ELSE <<>>
         ELSE <<"NORMAL">>
    ELSE <<>>

\* App::mouseCursorCallback, leaving lastMousePos alone while the button is up
mouseCursorCallbackKeepLast(right, last, cur) ==
    IF right = "RELEASE"
    THEN [lastMousePos |-> last, looks |-> <<>>]
    ELSE [lastMousePos |-> cur, looks |-> << <<cur[1] - last[1], last[2] - cur[2]>> >>]

\* App::mouseCursorCallback: the new lastMousePos and the arguments of its calls
\* of Camera::look
mouseCursorCallback(right, last, cur) ==
    IF right = "RELEASE"
    THEN [lastMousePos |-> cur, looks |-> <<>>]
    ELSE [lastMousePos |-> cur, looks |-> << <<cur[1] - last[1], last[2] - cur[2]>> >>]

\* glfwPollEvents dispatches a mouse button event: GLFW records the button's
\* state, then calls App::mouseButtonCallback
MouseButtonEvent ==
    /\ pc = "poll_events"
    /\ \E button \in MouseButtons, action \in MouseActions :
        LET modes == mouseButtonCallback(cursorMode, button, action) IN
        /\ mouseRight' = IF button = "RIGHT" THEN action ELSE mouseRight
        /\ cursorMode' = IF modes = <<>> THEN cursorMode ELSE modes[Len(modes)]
        /\ inputLog' = [inputLog EXCEPT !.kind = "button", !.button = button,
                                        !.action = action, !.modeBefore = cursorMode,
                                        !.lastBefore = lastMousePos,
                                        !.cameraBefore = camera_,
                                        !.modes = modes, !.looks = <<>>]
    /\ UNCHANGED <<appVars, gl, camera_, rVars, lastMousePos>>

\* glfwPollEvents dispatches a cursor position event to App::mouseCursorCallback
CursorPosEvent ==
    /\ pc = "poll_events"
    /\ \E cur \in CursorPositions :
        LET r == mouseCursorCallback(mouseRight, lastMousePos, cur) IN
        /\ lastMousePos' = r.lastMousePos
        /\ camera_' = IF r.looks = <<>>
                      THEN camera_
                      ELSE look(camera_, r.looks[1][1], r.looks[1][2])
        /\ inputLog' = [inputLog EXCEPT !.kind = "cursor", !.pos = cur,
                                        !.modeBefore = cursorMode,
                                        !.lastBefore = lastMousePos,
                                        !.cameraBefore = camera_,
                                        !.modes = <<>>, !.looks = r.looks,
                                        !.reported = cur]
    /\ UNCHANGED <<appVars, gl, rVars, mouseRight, cursorMode>>

InputNext ==
    \/ MouseButtonEvent
    \/ CursorPosEvent

\* ---------------------------------------------------------------- matrices

\* 4x4 matrices are tuples of four rows
MatMul(a, b) ==
    [i \in 1..4 |-> [j \in 1..4 |->
        a[i][1] * b[1][j] + a[i][2] * b[2][j] + a[i][3] * b[3][j] + a[i][4] * b[4][j]]]

\* a glm::mat4 member before its first assignment
NoMatrix == <<>>

\* the value of a mat4 uniform of a freshly linked program
ZeroMatrix == [i \in 1..4 |-> [j \in 1..4 |-> 0]]

\* glm::mat4(glm::mat3(m)): the upper-left 3x3 of m inside the identity
Mat4OfMat3Of(m) ==
    [i \in 1..4 |-> [j \in 1..4 |->
        IF i <= 3 /\ j <= 3 THEN m[i][j] ELSE IF i = j THEN 1 ELSE 0]]

\* glm::lookAt for a unit view direction
LookAt(eye, center, up) ==
    LET f == VecAdd(center, VecNeg(eye))
        s == Cross(f, up)
        u == Cross(s, f)
    IN  << <<s[1], s[2], s[3], 0 - Dot(s, eye)>>,
           <<u[1], u[2], u[3], 0 - Dot(u, eye)>>,
           <<0 - f[1], 0 - f[2], 0 - f[3], Dot(f, eye)>>,
           <<0, 0, 0, 1>> >>

\* Camera::calculateViewMatrix
calculateViewMatrix(cam) ==
    LookAt(cam.position, VecAdd(cam.position, Front(cam.yaw)), Up(cam.yaw))

\* the projection matrix is held in fixed point: every entry times ProjDenom
ProjDenom == 4 * 999

\* zNear = 0.1 and zFar = 100.0, in tenths
zNearTenths == 1
zFarTenths == 1000

\* glm::perspective(fov, width / height, 0.1, 100.0), with fovCot = 1 / tan(fov / 2)
Perspective(fovCot, width, height) ==
    LET range == zFarTenths - zNearTenths
    IN  << <<(ProjDenom * fovCot * height) \div width, 0, 0, 0>>,
           <<0, ProjDenom * fovCot, 0, 0>>,
           <<0, 0, 0 - ((ProjDenom * (zFarTenths + zNearTenths)) \div range),
                   0 - ((ProjDenom * 2 * zFarTenths * zNearTenths) \div (10 * range))>>,
           <<0, 0, 0 - ProjDenom, 0>> >>

\* ---------------------------------------------------------------- Renderer

ModelShader == "ModelShader"
SkyboxShader == "SkyboxShader"

NoProgram == "0"
NoVertexArray == "0"

\* the OpenGL state of a fresh context
GLInitial == [depthTest |-> FALSE, blend |-> FALSE, polygonMode |-> "FILL",
              depthFunc |-> "LESS", program |-> NoProgram, vertexArray |-> NoVertexArray,
              textureCubeMap |-> "0"]

Skybox == [vertexArray |-> "skybox.vertexArray", textureID |-> "skybox.textureID"]

\* the Model loaded from a path
ModelOf(path) == [vertexArray |-> path, indices |-> path]

Models == {ModelOf(modelPaths[i]) : i \in 1..Len(modelPaths)}

\* cot(fov / 2) for the field-of-view settings of the model
FovCots == {1, 2}

RendererDrawProperties == [fovCot : FovCots, wireframeModeEnabled : BOOLEAN]

CameraStates == {cam \in [position : {VecAdd(InitialCamera.position, <<x, y, z>>) :
                                        x \in (0 - CamBound)..CamBound,
                                        y \in (0 - CamBound)..CamBound,
                                        z \in (0 - CamBound)..CamBound},
                          yaw : Yaws] : InBox(cam)}

NoRInit == [modelShader |-> NULL, skyboxShader |-> NULL, failedAt |-> NULL, result |-> NULL]

\* Renderer::Renderer
RendererInit ==
    /\ rpc = "constructed"
    /\ rWindow_ = NULL
    /\ shaders_ = <<>>
    /\ rInit = NoRInit
    /\ drawProps_ = [fovCot |-> 1, wireframeModeEnabled |-> FALSE]
    /\ projection_ = NoMatrix
    /\ curModel = NULL
    /\ u_projectionView = ZeroMatrix

\* Renderer::init: gladLoadGL / gladLoadGLES2
RInitLoadGL ==
    /\ rpc = "constructed"
    /\ \E ok \in BOOLEAN :
        /\ glLoaded' = ok
        /\ IF ok
           THEN /\ rpc' = "init_model_shader"
                /\ UNCHANGED rInit
           ELSE /\ rpc' = "init_returned"
                /\ rInit' = [rInit EXCEPT !.failedAt = "gladLoadGL", !.result = FALSE]
    /\ UNCHANGED <<pc, exitCode, glfwUp, window_, guiUp, skybox_, models_, initLog, runEntered, closeFlag, lag, drawProps, activeModel, frame,
                   gl, camera_, emscripten, rWindow_, shaders_, drawProps_, projection_,
                   curModel, u_projectionView, cleanups, meter, inVars>>

\* Renderer::init: the model shader is created
RInitModelShader ==
    /\ rpc = "init_model_shader"
    /\ \E ok \in BOOLEAN :
        IF ok
        THEN /\ rpc' = "init_skybox_shader"
             /\ rInit' = [rInit EXCEPT !.modelShader = ModelShader]
        ELSE /\ rpc' = "init_returned"
             /\ rInit' = [rInit EXCEPT !.failedAt = "modelShader", !.result = FALSE]
    /\ UNCHANGED <<appVars, inVars, gl, camera_, emscripten, rWindow_, shaders_, drawProps_,
                   projection_, curModel, u_projectionView>>

\* the skybox shader's creation with each shader stored as soon as it is created
RInitSkyboxShaderStoreEarly ==
    /\ rpc = "init_skybox_shader"
    /\ shaders_' = <<rInit.modelShader>>
    /\ \E ok \in BOOLEAN :
        IF ok
        THEN /\ rpc' = "init_store"
             /\ rInit' = [rInit EXCEPT !.skyboxShader = SkyboxShader]
        ELSE /\ rpc' = "init_returned"
             /\ rInit' = [rInit EXCEPT !.modelShader = NULL, !.failedAt = "skyboxShader",
                                       !.result = FALSE]
    /\ UNCHANGED <<appVars, inVars, gl, camera_, emscripten, rWindow_, drawProps_,
                   projection_, curModel, u_projectionView>>

\* Renderer::init: the skybox shader is created; on failure the local model
\* shader is destroyed by the return
RInitSkyboxShader ==
    /\ rpc = "init_skybox_shader"
    /\ \E ok \in BOOLEAN :
        IF ok
        THEN /\ rpc' = "init_store"
             /\ rInit' = [rInit EXCEPT !.skyboxShader = SkyboxShader]
        ELSE /\ rpc' = "init_returned"
             /\ rInit' = [rInit EXCEPT !.modelShader = NULL, !.failedAt = "skyboxShader",
                                       !.result = FALSE]
    /\ UNCHANGED <<appVars, inVars, gl, camera_, emscripten, rWindow_, shaders_, drawProps_,
                   projection_, curModel, u_projectionView>>

\* Renderer::init: the shaders are moved into shaders_, the capabilities are
\* enabled, the window is kept, true is returned
RInitStore ==
    /\ rpc = "init_store"
    /\ shaders_' = shaders_ \o <<rInit.modelShader, rInit.skyboxShader>>
    /\ gl' = [gl EXCEPT !.depthTest = TRUE, !.blend = TRUE]
    /\ rWindow_' = "window"
    /\ rInit' = [rInit EXCEPT !.modelShader = NULL, !.skyboxShader = NULL, !.result = TRUE]
    /\ rpc' = "init_returned"
    /\ UNCHANGED <<appVars, inVars, camera_, emscripten, drawProps_, projection_, curModel,
                   u_projectionView>>

\* the caller goes on to draw only with a renderer whose init succeeded
RInitChecked ==
    /\ rpc = "init_returned"
    /\ rInit.result = TRUE
    /\ rpc' = "ready"
    /\ UNCHANGED <<appVars, inVars, gl, camera_, emscripten, rWindow_, shaders_, rInit, drawProps_,
                   projection_, curModel, u_projectionView>>

\* between two renderer calls the owner moves or turns the camera the renderer
\* refers to
OwnerMovesCamera ==
    /\ rpc = "ready"
    /\ camera_' \in CameraStates
    /\ UNCHANGED <<appVars, inVars, gl, emscripten, rpc, rWindow_, shaders_, rInit, drawProps_,
                   projection_, curModel, u_projectionView>>

\* between two renderer calls the owner edits the DrawProperties the renderer
\* refers to
OwnerEditsDrawProperties ==
    /\ rpc = "ready"
    /\ drawProps_' \in RendererDrawProperties
    /\ UNCHANGED <<appVars, inVars, gl, camera_, emscripten, rpc, rWindow_, shaders_, rInit,
                   projection_, curModel, u_projectionView>>

\* Renderer::prepareDraw; the window is not resizable
PrepareDraw ==
    /\ rpc = "ready"
    /\ projection_' = Perspective(drawProps_.fovCot, SCREEN_WIDTH, SCREEN_HEIGHT)
    /\ UNCHANGED <<appVars, inVars, gl, camera_, emscripten, rpc, rWindow_, shaders_, rInit,
                   drawProps_, curModel, u_projectionView>>

\* glBindVertexArray without shader.use()
DmUseGLKeepProgram(g, model) == [g EXCEPT !.vertexArray = model.vertexArray]

\* the OpenGL state after each group of statements of Renderer::drawModel
DmUseGL(g, model) == [g EXCEPT !.program = shaders_[1], !.vertexArray = model.vertexArray]

DmPolygonModeGL(g, props, ems) ==
    IF ems
    THEN g
    ELSE [g EXCEPT !.polygonMode = IF props.wireframeModeEnabled THEN "LINE" ELSE "FILL"]

DmResetGLKeepPolygonMode(g, ems) == [g EXCEPT !.vertexArray = NoVertexArray]

\* the reset of Renderer::drawModel without glBindVertexArray(0)
DmResetGLKeepVertexArray(g, ems) ==
    IF ems THEN g ELSE [g EXCEPT !.polygonMode = "FILL"]

DmResetGL(g, ems) ==
    IF ems
    THEN [g EXCEPT !.vertexArray = NoVertexArray]
    ELSE [g EXCEPT !.polygonMode = "FILL", !.vertexArray = NoVertexArray]

\* Renderer::drawModel is entered: shader.use(), glBindVertexArray
DmUse ==
    /\ rpc = "ready"
    /\ projection_ # NoMatrix
    /\ \E model \in Models :
        /\ curModel' = model
        /\ gl' = DmUseGL(gl, model)
    /\ rpc' = "dm_uniforms"
    /\ UNCHANGED <<appVars, inVars, camera_, emscripten, rWindow_, shaders_, rInit, drawProps_,
                   projection_, u_projectionView>>

\* the transforms are computed and the uniforms are uploaded
DmUniforms ==
    /\ rpc = "dm_uniforms"
    /\ rpc' = "dm_polygon_mode"
    /\ UNCHANGED <<appVars, inVars, gl, camera_, emscripten, rWindow_, shaders_, rInit, drawProps_,
                   projection_, curModel, u_projectionView>>

\* the lighting terms are selected; glPolygonMode (not in the Emscripten build)
DmPolygonMode ==
    /\ rpc = "dm_polygon_mode"
    /\ gl' = DmPolygonModeGL(gl, drawProps_, emscripten)
    /\ rpc' = "dm_draw"
    /\ UNCHANGED <<appVars, inVars, camera_, emscripten, rWindow_, shaders_, rInit, drawProps_,
                   projection_, curModel, u_projectionView>>

\* glDrawElements(GL_TRIANGLES, model.indices.size(), ...)
DmDrawElements ==
    /\ rpc = "dm_draw"
    /\ rpc' = "dm_reset"
    /\ UNCHANGED <<appVars, inVars, gl, camera_, emscripten, rWindow_, shaders_, rInit, drawProps_,
                   projection_, curModel, u_projectionView>>

\* the state is reset and drawModel returns
DmReset ==
    /\ rpc = "dm_reset"
    /\ gl' = DmResetGL(gl, emscripten)
    /\ curModel' = NULL
    /\ rpc' = "ready"
    /\ UNCHANGED <<appVars, inVars, camera_, emscripten, rWindow_, shaders_, rInit, drawProps_,
                   projection_, u_projectionView>>

\* the matrix drawSkybox uploads, with the view matrix used as it is
SkyboxProjectionViewWithTranslation(projection, cam) ==
    MatMul(projection, calculateViewMatrix(cam))

\* normalizedView = mat4(mat3(view)); projectionView = projection_ * normalizedView
SkyboxProjectionView(projection, cam) ==
    MatMul(projection, Mat4OfMat3Of(calculateViewMatrix(cam)))

SbResetGLKeepDepthFunc(g) == [g EXCEPT !.vertexArray = NoVertexArray]

SbResetGL(g) == [g EXCEPT !.vertexArray = NoVertexArray, !.depthFunc = "LESS"]

\* Renderer::drawSkybox is entered: glDepthFunc(GL_LEQUAL)
SbDepthFunc ==
    /\ rpc = "ready"
    /\ projection_ # NoMatrix
    /\ gl' = [gl EXCEPT !.depthFunc = "LEQUAL"]
    /\ rpc' = "sb_use"
    /\ UNCHANGED <<appVars, inVars, camera_, emscripten, rWindow_, shaders_, rInit, drawProps_,
                   projection_, curModel, u_projectionView>>

\* shader.use(), glBindVertexArray, glActiveTexture, glBindTexture
SbUse ==
    /\ rpc = "sb_use"
    /\ gl' = [gl EXCEPT !.program = shaders_[2], !.vertexArray = Skybox.vertexArray,
                        !.textureCubeMap = Skybox.textureID]
    /\ rpc' = "sb_uniforms"
    /\ UNCHANGED <<appVars, inVars, camera_, emscripten, rWindow_, shaders_, rInit, drawProps_,
                   projection_, curModel, u_projectionView>>

\* the uniforms are uploaded to the program in use
SbUniforms ==
    /\ rpc = "sb_uniforms"
    /\ u_projectionView' = IF gl.program = SkyboxShader
                           THEN SkyboxProjectionView(projection_, camera_)
                           ELSE u_projectionView
    /\ rpc' = "sb_draw"
    /\ UNCHANGED <<appVars, inVars, gl, camera_, emscripten, rWindow_, shaders_, rInit, drawProps_,
                   projection_, curModel>>

\* glDrawElements(GL_TRIANGLES, 36, ...)
SbDrawElements ==
    /\ rpc = "sb_draw"
    /\ rpc' = "sb_reset"
    /\ UNCHANGED <<appVars, inVars, gl, camera_, emscripten, rWindow_, shaders_, rInit, drawProps_,
                   projection_, curModel, u_projectionView>>

\* the state is reset and drawSkybox returns
SbReset ==
    /\ rpc = "sb_reset"
    /\ gl' = SbResetGL(gl)
    /\ rpc' = "ready"
    /\ UNCHANGED <<appVars, inVars, camera_, emscripten, rWindow_, shaders_, rInit, drawProps_,
                   projection_, curModel, u_projectionView>>

RendererNext ==
    \/ RInitLoadGL
    \/ RInitModelShader
    \/ RInitSkyboxShader
    \/ RInitStore
    \/ RInitChecked
    \/ OwnerMovesCamera
    \/ OwnerEditsDrawProperties
    \/ PrepareDraw
    \/ DmUse
    \/ DmUniforms
    \/ DmPolygonMode
    \/ DmDrawElements
    \/ DmReset
    \/ SbDepthFunc
    \/ SbUse
    \/ SbUniforms
    \/ SbDrawElements
    \/ SbReset

\* ----------------------------------------------------------- specifications

\* the application, built for the desktop
Init ==
    /\ AppInit
    /\ gl = GLInitial
    /\ emscripten = FALSE
    /\ RendererInit
    /\ InputInit
    /\ meter = MeterOff

Next == AppNext

Spec == Init /\ [][Next]_vars

\* a Renderer in a context made current by its owner, in either build
RendererSpecInit ==
    /\ AppInit
    /\ gl = GLInitial
    /\ emscripten \in BOOLEAN
    /\ RendererInit
    /\ InputInit
    /\ meter = MeterOff

RendererSpec == RendererSpecInit /\ [][RendererNext]_vars

\* the application with the totals of elapsed time and drained timesteps kept
TimingInit ==
    /\ AppInit
    /\ gl = GLInitial
    /\ emscripten = FALSE
    /\ RendererInit
    /\ InputInit
    /\ meter = [MeterOff EXCEPT !.mode = "time"]

TimingSpec == TimingInit /\ [][Next]_vars

\* the application with the calls of Camera::moveForward counted as well
MovementInit ==
    /\ AppInit
    /\ gl = GLInitial
    /\ emscripten = FALSE
    /\ RendererInit
    /\ InputInit
    /\ meter = [MeterOff EXCEPT !.mode = "movement"]

MovementSpec == MovementInit /\ [][Next]_vars

\* the application inside glfwPollEvents at the end of its first loop
\* iteration, after a startup without failure, no elapsed time and no key
FirstPollEvents ==
    /\ pc = "poll_events"
    /\ exitCode = NULL
    /\ glfwUp = TRUE
    /\ window_ = "window"
    /\ glLoaded = TRUE
    /\ guiUp = TRUE
    /\ skybox_ = "skybox"
    /\ models_ = modelPaths
    /\ initLog = [i \in 1..(6 + Len(modelPaths)) |->
                    [step |-> (<<"glfwInit", "glfwCreateWindow", "gladLoadGL", "Gui::init",
                                 "SkyboxBuilder::build">> \o modelPaths \o <<"glEnable">>)[i],
                     ok |-> TRUE]]
    /\ runEntered = TRUE
    /\ closeFlag = FALSE
    /\ lag = 0
    /\ drawProps = createDefault
    /\ activeModel = modelPaths[1]
    /\ camera_ = InitialCamera
    /\ frame = [escape |-> FALSE, drained |-> 0, guiProps |-> createDefault, clears |-> 1,
                drawn |-> <<modelPaths[1]>>, skyboxDraws |-> 1, guiDraws |-> 1, swaps |-> 1,
                accumulated |-> 0,
                order |-> <<"handleInput", "Gui::preRender", "activeModel", "clear",
                            "drawModel", "drawSkybox", "Gui::draw", "swapBuffers">>]
    /\ cleanups = 0
    /\ gl = [GLInitial EXCEPT !.depthTest = TRUE, !.blend = TRUE]
    /\ emscripten = FALSE
    /\ RendererInit
    /\ meter = MeterOff

\* the mouse callbacks under any sequence of mouse events
InputSpecInit ==
    /\ FirstPollEvents
    /\ InputInit

InputSpec == InputSpecInit /\ [][InputNext]_vars

\* ------------------------------------------------------------------ claims

\* the positions of App::run after the drain loop of an iteration
AfterDrain == {"gui_prerender", "select_model", "clear", "draw_model", "draw_skybox",
               "gui_draw", "swap_buffers", "poll_events"}

\* the positions of an iteration after the model's draw call
AfterModelDraw == {"draw_skybox", "gui_draw", "swap_buffers", "poll_events"}

\* C1: immediately after the drain loop of every iteration the accumulator is
\* below one fixed timestep, whatever non-negative times have elapsed.
C1_LagBelowTimestepAfterDrain ==
    pc = "gui_prerender" => lag < FIXED_UPDATE_TIMESTEP

\* the drain loop has just been left after at least two passes
C1_Witness ==
    pc = "gui_prerender" /\ frame.drained >= 2

\* C2: when the GUI step of an iteration returned an index inside models_, the
\* model drawn in that iteration is models_[index] and no other model is drawn.
C2_SelectedModelIsTheOneDrawn ==
    /\ pc \in AfterDrain \ AfterModelDraw => frame.drawn = <<>>
    /\ (/\ pc \in AfterModelDraw
        /\ frame.guiProps.selectedModelIndex \in 0..(Len(models_) - 1))
       => frame.drawn = <<models_[frame.guiProps.selectedModelIndex + 1]>>

\* the last model was selected in the GUI and has been drawn
C2_Witness ==
    /\ pc = "draw_skybox"
    /\ frame.guiProps.selectedModelIndex = Len(modelPaths) - 1
    /\ frame.drawn = <<modelPaths[Len(modelPaths)]>>

\* C3: while the loop runs, drawProps.selectedModelIndex is a valid index into
\* the models loaded by init, in particular where models_[index] is read after
\* the GUI has overwritten drawProps; the pointer read is that of a model.
C3_SelectedModelIndexValid ==
    /\ pc \in {"loop_top", "tick", "handle_input", "drain", "run_returned"} \cup AfterDrain
       => drawProps.selectedModelIndex \in 0..(Len(models_) - 1)
    /\ activeModel # "INVALID"

\* models_[selectedModelIndex] is about to be read with the index the GUI wrote
C3_Witness ==
    /\ pc = "select_model"
    /\ drawProps = frame.guiProps
    /\ drawProps.selectedModelIndex = Len(models_) - 1
    /\ drawProps.selectedModelIndex # createDefault.selectedModelIndex

\* the OpenGL state with the polygon mode left out
WithoutPolygonMode(g) == [g EXCEPT !.polygonMode = "any"]

\* C4: drawModel has line mode only around its own draw call and only when the
\* toggle is set (never in the Emscripten build); outside that, in particular
\* whenever drawModel has returned and during every step of drawSkybox, the
\* polygon mode is fill; and the toggle changes nothing of the OpenGL state but
\* the polygon mode.
C4_WireframeOnlyAroundModelDraw ==
    /\ [](/\ rpc \notin {"dm_draw", "dm_reset"} => gl.polygonMode = "FILL"
          /\ rpc \in {"dm_draw", "dm_reset"} =>
                (gl.polygonMode = "LINE" <=> (drawProps_.wireframeModeEnabled /\ ~emscripten))
          /\ gl.polygonMode \in {"FILL", "LINE"})
    /\ [][rpc = "dm_polygon_mode" =>
            \A toggle \in BOOLEAN :
                WithoutPolygonMode(gl') =
                WithoutPolygonMode(DmPolygonModeGL(gl,
                    [drawProps_ EXCEPT !.wireframeModeEnabled = toggle], emscripten))]_vars

\* a model has been drawn in line mode and drawModel is about to reset the state
C4_Witness ==
    rpc = "dm_reset" /\ gl.polygonMode = "LINE" /\ drawProps_.wireframeModeEnabled

InDrawSkybox == {"sb_use", "sb_uniforms", "sb_draw", "sb_reset"}

\* C5: the depth comparison is less-or-equal from the first statement of
\* drawSkybox to its last, so at its draw call, and strict less in every state
\* outside an executing drawSkybox, so during every drawModel.
C5_DepthFuncRestoredAfterSkybox ==
    /\ rpc \in InDrawSkybox => gl.depthFunc = "LEQUAL"
    /\ rpc \notin InDrawSkybox => gl.depthFunc = "LESS"

\* a model's draw call after the skybox has been drawn at least once
C5_Witness ==
    rpc = "dm_draw" /\ u_projectionView # ZeroMatrix /\ gl.depthFunc = "LESS"

\* the view rotation of a camera: rows right, up, -front, no translation
RotationOnly(cam) ==
    LET r == Right(cam.yaw)
        u == Up(cam.yaw)
        f == Front(cam.yaw)
    IN  << <<r[1], r[2], r[3], 0>>, <<u[1], u[2], u[3], 0>>,
           <<0 - f[1], 0 - f[2], 0 - f[3], 0>>, <<0, 0, 0, 1>> >>

\* C6: the u_projectionView drawSkybox uploads is the one any camera with the
\* same orientation and the same projection would give, wherever it stands: it
\* is the projection times the rotation part of the view matrix alone.
C6_SkyboxIgnoresCameraPosition ==
    rpc = "sb_draw" =>
        /\ \A other \in CameraStates :
              other.yaw = camera_.yaw =>
                  SkyboxProjectionView(projection_, other) = u_projectionView
        /\ u_projectionView = MatMul(projection_, RotationOnly(camera_))

\* the skybox uniforms were uploaded for a camera whose view matrix translates
C6_Witness ==
    /\ rpc = "sb_draw"
    /\ camera_.position # InitialCamera.position
    /\ \E i \in 1..3 : calculateViewMatrix(camera_)[i][4] # 0
    /\ u_projectionView # ZeroMatrix

\* C7: an iteration clears once, draws one model, draws the GUI once and swaps
\* once, however many fixed timesteps its drain loop consumed.
C7_RendersOncePerIteration ==
    /\ frame.clears <= 1 /\ Len(frame.drawn) <= 1 /\ frame.guiDraws <= 1 /\ frame.swaps <= 1
    /\ frame.skyboxDraws <= 1
    /\ pc = "poll_events" =>
          frame.clears = 1 /\ Len(frame.drawn) = 1 /\ frame.guiDraws = 1 /\ frame.swaps = 1
    /\ pc \in {"tick", "handle_input", "drain", "gui_prerender"} =>
          frame.clears = 0 /\ Len(frame.drawn) = 0 /\ frame.guiDraws = 0 /\ frame.swaps = 0

\* an iteration that drained several timesteps has swapped
C7_Witness ==
    pc = "poll_events" /\ frame.drained >= 2 /\ frame.swaps = 1

\* C8: run returns exactly when the close flag is found set at the top of the
\* loop; the flag is set only by handleInput seeing Escape or by a close
\* request delivered by the event poll, it is never cleared, and with the flag
\* set no further iteration starts.
C8_RunReturnsOnlyOnCloseFlag ==
    [][/\ (pc # "run_returned" /\ pc' = "run_returned") => (pc = "loop_top" /\ closeFlag)
       /\ (pc = "loop_top" /\ closeFlag) => pc' = "run_returned"
       /\ (pc = "loop_top" /\ ~closeFlag) => pc' = "tick"
       /\ (~closeFlag /\ closeFlag') =>
             \/ pc = "handle_input" /\ frame'.escape
             \/ pc = "poll_events"
       /\ (pc = "handle_input" /\ frame'.escape) => closeFlag'
       /\ closeFlag => closeFlag'
       /\ closeFlag => pc' \notin {"tick"} \/ pc = "tick"]_vars

\* run has returned after an iteration in which Escape was seen
C8_Witness ==
    pc = "run_returned" /\ frame.escape /\ frame.swaps = 1

\* the startup steps of App::init in program order
InitOrder ==
    <<"glfwInit", "glfwCreateWindow", "gladLoadGL", "Gui::init", "SkyboxBuilder::build">>
    \o modelPaths \o <<"glEnable">>

\* C9: the startup steps run in order; a step that fails is the last one
\* executed, run is never entered after it and the exit code is not 0; the
\* exit code is 0 only after every step succeeded and run was entered and left.
C9_StartupFailureAborts ==
    /\ Len(initLog) <= Len(InitOrder)
    /\ \A i \in 1..Len(initLog) :
        /\ initLog[i].step = InitOrder[i]
        /\ ~initLog[i].ok =>
            /\ i = Len(initLog)
            /\ ~runEntered
            /\ pc \in {"init_failed", "exit"}
            /\ pc = "exit" => exitCode # 0
    /\ pc = "exit" =>
        /\ exitCode \in {EXIT_SUCCESS, EXIT_FAILURE}
        /\ exitCode = 0 <=>
            /\ Len(initLog) = Len(InitOrder)
            /\ \A i \in 1..Len(initLog) : initLog[i].ok
            /\ runEntered
    /\ pc # "exit" => exitCode = NULL
    /\ runEntered => Len(initLog) = Len(InitOrder)

\* the process has exited after the last model could not be created
C9_Witness ==
    /\ pc = "exit"
    /\ exitCode = EXIT_FAILURE
    /\ Len(initLog) = 5 + Len(modelPaths)
    /\ ~initLog[Len(initLog)].ok
    /\ window_ # NULL

\* C10: Renderer::init returns false when a step failed, and then shaders_ is
\* empty, window_ is null and neither depth testing nor blending is enabled; it
\* returns true only when no step failed, and then shaders_ holds the model
\* shader followed by the skybox shader.
C10_RendererInitAllOrNothing ==
    rpc = "init_returned" =>
        /\ rInit.failedAt # NULL => rInit.result = FALSE
        /\ rInit.result = FALSE =>
            /\ rInit.failedAt # NULL
            /\ shaders_ = <<>>
            /\ rWindow_ = NULL
            /\ ~gl.depthTest
            /\ ~gl.blend
        /\ rInit.result = TRUE =>
            /\ shaders_ = <<ModelShader, SkyboxShader>>
            /\ rWindow_ # NULL
            /\ gl.depthTest /\ gl.blend

\* init has returned false because the skybox shader could not be created
C10_Witness ==
    rpc = "init_returned" /\ rInit.failedAt = "skyboxShader" /\ rInit.result = FALSE

\* C11: for a movement key held down at every handleInput of a run (here W),
\* the number of calls of its mutator Camera::moveForward, each with
\* dt = FIXED_UPDATE_TIMESTEP, does not exceed the number of fixed timesteps
\* drained from the accumulator so far, however the elapsed time is split
\* into loop iterations.
C11_MovementCallsWithinDrainedSteps ==
    (pc \in AfterDrain /\ meter.forwardHeld) => meter.forwardCalls <= meter.drained

\* the steps of a loop iteration in the order of App::run
FrameOrder(skybox) ==
    <<"handleInput", "Gui::preRender", "activeModel", "clear", "drawModel">>
        \o (IF skybox THEN <<"drawSkybox">> ELSE <<>>)
        \o <<"Gui::draw", "swapBuffers", "pollEvents">>

IsPrefix(s, t) == Len(s) <= Len(t) /\ \A i \in 1..Len(s) : s[i] = t[i]

\* C12: the steps of every loop iteration occur in the order input handling,
\* GUI update of DrawProperties, (selection of the active model,) viewport /
\* clear / projection, model draw, skybox draw (if any), GUI draw, buffer swap,
\* event polling; so the GUI's write of DrawProperties precedes the reads by
\* the drawing steps, and the skybox draw never precedes the model draw.
C12_StepsInOrder ==
    \E skybox \in BOOLEAN : IsPrefix(frame.order, FrameOrder(skybox))

\* an iteration has gone through all its steps, the skybox draw included
C12_Witness ==
    pc = "loop_top" /\ frame.order = FrameOrder(TRUE)

\* C13: at every uniform upload and at the draw call inside drawModel the
\* program in use is the model shader, and inside drawSkybox it is the skybox
\* shader, for any interleaving of drawModel and drawSkybox calls.
C13_ActiveProgramIsTheDrawsOwn ==
    /\ rpc \in {"dm_uniforms", "dm_polygon_mode", "dm_draw"} => gl.program = ModelShader
    /\ rpc \in {"sb_uniforms", "sb_draw"} => gl.program = SkyboxShader

\* drawModel is at its draw call after an earlier drawSkybox has left the skybox
\* shader in use
C13_Witness ==
    rpc = "dm_draw" /\ u_projectionView # ZeroMatrix /\ gl.program = ModelShader

\* C14: the drain conserves time. After the drain loop of an iteration the
\* number of timesteps it subtracted is the number of whole timesteps in
\* (carried-over lag + elapsed time) and lag is the remainder; lag is never
\* negative; and over the run so far, (timesteps drained x
\* FIXED_UPDATE_TIMESTEP) + lag equals the elapsed time added.
C14_DrainConservesTime ==
    /\ lag >= 0
    /\ pc \in AfterDrain =>
        /\ frame.drained = frame.accumulated \div FIXED_UPDATE_TIMESTEP
        /\ lag = frame.accumulated % FIXED_UPDATE_TIMESTEP
    /\ meter.drained * FIXED_UPDATE_TIMESTEP + lag = meter.elapsed

\* an iteration that started with lag carried over has drained a timestep,
\* after an earlier iteration had drained one too
C14_Witness ==
    /\ pc \in AfterDrain
    /\ frame.drained >= 1
    /\ meter.drained > frame.drained
    /\ frame.accumulated > frame.drained * FIXED_UPDATE_TIMESTEP

\* C15: after a cursor-position callback lastMousePos is the position it was
\* called with. If the right button was up at the call, Camera::look was not
\* called and the camera is as before; if it was down, look was called
\* exactly once, with (current.x - last.x, last.y - current.y) for the
\* lastMousePos of before the call, and the camera is the result of that look.
\* lastMousePos is always the most recent cursor position reported (the
\* window's centre before the first report), so the first look after a press
\* never uses an older position.
C15_LookOnlyWhileRightButtonHeld ==
    /\ lastMousePos = inputLog.reported
    /\ inputLog.kind = "cursor" =>
        /\ lastMousePos = inputLog.pos
        /\ IF mouseRight = "RELEASE"
           THEN /\ inputLog.looks = <<>>
                /\ camera_ = inputLog.cameraBefore
           ELSE /\ inputLog.looks = << <<inputLog.pos[1] - inputLog.lastBefore[1],
                                          inputLog.lastBefore[2] - inputLog.pos[2]>> >>
                /\ camera_ = look(inputLog.cameraBefore, inputLog.looks[1][1],
                                  inputLog.looks[1][2])

\* the cursor moved with the button up, then again with the button down: the
\* look turned the camera by the offset from the position reported last
C15_Witness ==
    /\ inputLog.kind = "cursor"
    /\ mouseRight = "PRESS"
    /\ inputLog.lastBefore # ScreenCentre
    /\ inputLog.looks = << <<1, 0>> >>
    /\ camera_.yaw = 0

\* C16: after a callback for a mouse button event: a right-button press in
\* normal cursor mode has set the mode to hidden and then to disabled; a
\* right-button press in another mode has set nothing; any other action of the
\* right button has set the mode to normal; an event of another button has
\* set nothing. So after a right-button release the mode is normal.
C16_CursorModeStateMachine ==
    inputLog.kind = "button" =>
        /\ cursorMode = IF inputLog.modes = <<>>
                        THEN inputLog.modeBefore
                        ELSE inputLog.modes[Len(inputLog.modes)]
        /\ IF inputLog.button # "RIGHT"
           THEN inputLog.modes = <<>>
           ELSE IF inputLog.action # "PRESS"
                THEN inputLog.modes = <<"NORMAL">> /\ cursorMode = "NORMAL"
                ELSE IF inputLog.modeBefore = "NORMAL"
                     THEN inputLog.modes = <<"HIDDEN", "DISABLED">> /\ cursorMode = "DISABLED"
                     ELSE inputLog.modes = <<>> /\ cursorMode = inputLog.modeBefore

\* the right button was pressed while the cursor was already disabled
C16_Witness ==
    /\ inputLog.kind = "button"
    /\ inputLog.button = "RIGHT"
    /\ inputLog.action = "PRESS"
    /\ inputLog.modeBefore = "DISABLED"
    /\ cursorMode = "DISABLED"

\* the positions of an iteration after the skybox step
AfterSkyboxStep == {"gui_draw", "swap_buffers", "poll_events"}

\* C17: in every loop iteration the skybox is drawn (once) if and only if
\* skyboxEnabled is true in the DrawProperties the GUI step of that iteration
\* returned; when it is false, the iteration has drawn the model and then, by
\* the time of the buffer swap, the GUI, and nothing else.
C17_SkyboxDrawnIffEnabled ==
    pc \in AfterSkyboxStep =>
        /\ frame.skyboxDraws = IF frame.guiProps.skyboxEnabled THEN 1 ELSE 0
        /\ Len(frame.drawn) = 1
        /\ pc \in {"swap_buffers", "poll_events"} => frame.guiDraws = 1

\* an iteration whose GUI step switched the skybox off is about to swap buffers
C17_Witness ==
    /\ pc = "swap_buffers"
    /\ ~frame.guiProps.skyboxEnabled
    /\ frame.skyboxDraws = 0
    /\ frame.guiDraws = 1

\* C18: whenever the Renderer is between draw operations, so whenever
\* drawModel or drawSkybox has returned, no vertex array is bound; at the draw
\* call of drawModel the model's vertex array is bound and at the draw call of
\* drawSkybox the skybox's.
C18_NoVertexArrayLeak ==
    /\ rpc = "ready" => gl.vertexArray = NoVertexArray
    /\ rpc = "dm_draw" => gl.vertexArray = curModel.vertexArray
    /\ rpc = "sb_draw" => gl.vertexArray = Skybox.vertexArray

\* drawModel has returned after an earlier drawSkybox had returned
C18_Witness ==
    /\ rpc = "ready"
    /\ gl.program = ModelShader
    /\ u_projectionView # ZeroMatrix
    /\ gl.vertexArray = NoVertexArray

\* every startup step has been executed and has succeeded
InitSucceeded ==
    /\ Len(initLog) = Len(InitOrder)
    /\ \A i \in 1..Len(initLog) : initLog[i].ok

\* C19: App::cleanup is executed at most once, and only after run was entered
\* and has returned; when the process has exited it was executed exactly once
\* if init succeeded and not at all if init failed, in which case what init
\* had created before the failure (windowing system, window, GUI) is still
\* there.
C19_CleanupOnceAfterSuccessfulRun ==
    /\ cleanups \in {0, 1}
    /\ cleanups = 1 => pc = "exit" /\ runEntered /\ closeFlag /\ InitSucceeded
    /\ pc = "exit" =>
        /\ cleanups = 1 <=> InitSucceeded
        /\ cleanups = 1 => ~guiUp /\ window_ = NULL /\ ~glfwUp
        /\ cleanups = 0 =>
            /\ glfwUp <=> initLog[1].ok
            /\ window_ # NULL <=> (Len(initLog) >= 2 /\ initLog[2].ok)
            /\ guiUp <=> (Len(initLog) >= 4 /\ initLog[4].ok)

\* the process has exited without cleanup after the OpenGL functions could not
\* be loaded, with the windowing system up and the window created
C19_Witness ==
    /\ pc = "exit"
    /\ cleanups = 0
    /\ Len(initLog) = 3
    /\ ~initLog[3].ok
    /\ glfwUp
    /\ window_ # NULL

====
